---- MODULE Spec2Model ----
(***************************************************************************)
(* RequestLogger of robotframework-mitmlibrary: the rule store (block     *)
(* list, custom responses, custom status codes, response delays) and the  *)
(* two mitmproxy hooks request(flow) and response(flow) that evaluate it.  *)
(*                                                                         *)
(* Two threads act on one RequestLogger: the Robot Framework thread calls  *)
(* the add/remove/clear methods, the proxy's event-loop thread calls the   *)
(* hooks.  A hook is modelled statement by statement (each any(...) test,  *)
(* each loop iteration and each sleep is a step); each add/remove/clear    *)
(* call is one step.  The event loop runs one hook at a time.  Under Spec  *)
(* the administration calls fall between the exchanges, the way a test     *)
(* script sets its rules up before it sends the traffic they are for.      *)
(* StoreSpec is the administration calls alone.  PassSpec is the exchanges *)
(* alone, on a store that add calls filled before the first of them.       *)
(* Under ThreadsSpec the two threads interleave: a call may fall between   *)
(* two statements of a hook, clear_all_proxy_items is taken one            *)
(* list.clear() at a time, and a second exchange may arrive while the      *)
(* first is under way.                                                     *)
(***************************************************************************)
EXTENDS Integers, Sequences, FiniteSets, TLC

\* ------------------------------------------------------------------ bounds
\* at most this many entries in each of the four collections
MaxLen == 2
\* at most this many entries in the four collections together
MaxEntries == 2
\* at most this many exchanges are relayed
MaxExchanges == 2
\* at most this many exchanges are relayed while the two threads interleave
MaxThreadsExchanges == 1
\* at most this many administration statements fall inside an exchange
MaxRaces == 1
\* at most this many entries in each collection when the exchanges begin
\* on a store that was filled beforehand
MaxPassLen == 1

\* ------------------------------------------------------------------ values
\* Python's None (a missing body or header mapping); no text equals it
None == "<None>"

\* Python's int 1, a value that is no text (str)
One == "<1>"

\* isinstance(value, str)
is_text(value) == value \notin {None, One}

\* header mappings: absent (None) or a dict, kept as its sequence of items
NoHeaders == [present |-> FALSE, items |-> <<>>]
Dict(items) == [present |-> TRUE, items |-> items]

\* the flows the relay hands to the hooks: host and path of the request
Flows ==
  { [host |-> "api.example", path |-> "/v1/users"],
    [host |-> "blocked.example", path |-> "/x"] }

\* no exchange is in the relay
NoFlow == [host |-> "", path |-> ""]

\* the response the upstream server produced
Upstream ==
  [status_code |-> 200, body |-> "UP", headers |-> <<<<"Server", "up">>>>]

\* flow.response before the upstream server has answered
NoResponse == [status_code |-> 0, body |-> None, headers |-> <<>>]

\* arguments of the administration calls
BlockFragments == {"blocked.example", "example", "/x"}
Aliases == {"A1", "A2"}
ResponseFragments == {"api.example/v1", "example"}
Bodies == {"OK", None}
HeaderArgs ==
  {NoHeaders, Dict(<<<<"X-Rule", "1">>>>), Dict(<<<<"X-Retry", One>>>>)}
ResponseCodes == {201}
StatusAliases == {"S1", "A1"}
StatusFragments == {"api.example"}
StatusCodes == {503, 500}
DelayAliases == {"D1"}
DelayFragments == {"api.example"}
Delays == {"1s", "2s"}

\* the TypeError of list[None] and the TypeError of list.pop(None)
ListIndexTypeError ==
  "TypeError: list indices must be integers or slices, not NoneType"
PopTypeError ==
  "TypeError: 'NoneType' object cannot be interpreted as an integer"

\* a status_code argument that is no status code and that Response.make
\* fails on: the list [200], which cannot be the key of a dict lookup
BadCode == -1
\* the text of the TypeError that Response.make raises for it
MakeTypeError == "unhashable type: 'list'"

\* ----------------------------------------------------------------- helpers
\* Python's  f in s  on text
Contains(s, f) ==
  \E i \in 1..(Len(s) - Len(f) + 1) : SubSeq(s, i, i + Len(f) - 1) = f

\* flow.request.pretty_host
pretty_host(f) == f.host

\* flow.request.pretty_url: scheme, host and path of the request
pretty_url(f) == "http://" \o f.host \o f.path

\* robot.utils.safe_str: text is kept, any other object becomes its str()
safe_str(item) == IF item = None THEN "None" ELSE item

\* robot.utils.timestr_to_secs on the time strings in use
timestr_to_secs(t) == CASE t = "1s" -> 1 [] t = "2s" -> 2

\* [e.url for e in list]
Urls(list) == [i \in 1..Len(list) |-> list[i].url]

\* any(url in text for url in urls)
AnyIn(urls, text) == \E i \in 1..Len(urls) : Contains(text, urls[i])

\* list.pop(i) / the list without its i-th element
RemoveAt(list, i) == SubSeq(list, 1, i - 1) \o SubSeq(list, i + 1, Len(list))

\* the least index in a set of indices, 0 (Python's None) when it is empty
First(indices) ==
  IF indices = {} THEN 0
  ELSE CHOOSE i \in indices : \A j \in indices : i <= j

\* list.index(x) as list.remove(x) uses it: the first element equal to x
IndexOf(list, x) == First({i \in 1..Len(list) : list[i] = x})

\* next((index for (index, d) in enumerate(list) if d["alias"] == alias), None)
alias_index(list, alias) == First({i \in 1..Len(list) : list[i].alias = alias})

\* no administration call
NoCall == [name |-> "none", args |-> <<>>, entries |-> 0]

\* --------------------------------------------------------------- the state
VARIABLES
  block_list,             \* RequestLogger.block_list
  custom_response_list,   \* RequestLogger.custom_response_list
  custom_response_status, \* RequestLogger.custom_response_status
  response_delays_list,   \* RequestLogger.response_delays_list
  custom_status_urls,     \* RequestLogger.custom_status_urls
  custom_response_urls,   \* RequestLogger.custom_response_urls
  delay_response_urls,    \* RequestLogger.delay_response_urls
  phase,                  \* where the current exchange is in the relay
  flow,                   \* the current exchange's request (host, path)
  response,               \* flow.response
  kills,                  \* flow.kill() calls the running hook has made
  pc,                     \* statement the running hook is at ("idle": none)
  idx,                    \* position of the running hook's for loop
  timer,                  \* seconds of the time_sleep call in progress
  slept,                  \* seconds the running response hook has slept
  sleeps,                 \* time_sleep calls of the running response hook
  log,                    \* logger records written by the hooks for this flow
  exchanges,              \* exchanges relayed so far
  call,                   \* the latest administration call: name, arguments
                          \* and the number of entries the store held when it
                          \* was made (NoCall once the relay has moved on)
  raised,                 \* the exception that call raised to its caller
                          \* ("none": it returned)
  warned,                 \* the logger records that call wrote
  apc,                    \* statement a running clear_all_proxy_items is at
  dropped,                \* entries the running clear has emptied so far
  races,                  \* administration statements run inside an exchange
  delay_calls,            \* the add_response_delay_item calls made since the
                          \* RequestLogger was built or last cleared, each
                          \* as the alias, url and delay it was given
  other,                  \* where a second exchange is in the relay
  steady,                 \* override entries that have been in the list
                          \* ever since the running response hook began
  seen                    \* override entries the hook's for loop has visited

store == <<block_list, custom_response_list, custom_response_status,
           response_delays_list>>
urls == <<custom_status_urls, custom_response_urls, delay_response_urls>>
hook ==
  <<phase, flow, response, kills, pc, idx, timer, slept, sleeps, log,
    exchanges>>
admin == <<call, raised, warned, apc, dropped, races, delay_calls>>
visits == <<steady, seen>>
vars == <<store, urls, hook, admin, other, visits>>

Entries ==
  Len(block_list) + Len(custom_response_list) + Len(custom_response_status)
    + Len(response_delays_list)

Room(list) == Len(list) < MaxLen /\ Entries < MaxEntries

\* RequestLogger.__init__, before any exchange has arrived
Init ==
  /\ block_list = <<>>
  /\ custom_response_list = <<>>
  /\ custom_response_status = <<>>
  /\ response_delays_list = <<>>
  /\ custom_status_urls = <<>>
  /\ custom_response_urls = <<>>
  /\ delay_response_urls = <<>>
  /\ phase = "NONE"
  /\ flow = NoFlow
  /\ response = NoResponse
  /\ kills = 0
  /\ pc = "idle"
  /\ idx = 0
  /\ timer = 0
  /\ slept = 0
  /\ sleeps = 0
  /\ log = <<>>
  /\ exchanges = 0
  /\ call = NoCall
  /\ raised = "none"
  /\ warned = <<>>
  /\ apc = "idle"
  /\ dropped = 0
  /\ races = 0
  /\ delay_calls = <<>>
  /\ other = "NONE"
  /\ steady = {}
  /\ seen = {}

\* the entries behind: those of them that the list, as the call leaves it,
\* still holds
still(entries) ==
  {e \in entries :
     \E i \in 1..Len(custom_response_list') : custom_response_list'[i] = e}

\* no exchange is under way: none has arrived yet or the last one is done
between == pc = "idle" /\ phase \in {"NONE", "BLOCKED", "DELIVERED"}

\* an administration statement that runs while an exchange is under way is
\* counted
raced == races' = IF between THEN races ELSE races + 1

\* the add_response_delay_item calls on record once this call is over
called(name, args) ==
  /\ delay_calls' =
       IF name = "add_response_delay_item"
       THEN Append(delay_calls,
                   [alias |-> args[1], url |-> args[2], delay |-> args[3]])
       ELSE IF name \in {"clear_all_proxy_items", "start_mitm_proxy"}
       THEN <<>>
       ELSE delay_calls

\* the call returns to its caller, having written these logger records
returns(name, args, records) ==
  /\ call' = [name |-> name, args |-> args, entries |-> Entries + dropped]
  /\ called(name, args)
  /\ raised' = "none"
  /\ warned' = records
  /\ steady' = still(steady)
  /\ raced
  /\ UNCHANGED <<hook, apc, dropped, other, seen>>

\* the call ends in an exception that reaches its caller
raises(name, args, exception) ==
  /\ call' = [name |-> name, args |-> args, entries |-> Entries + dropped]
  /\ called(name, args)
  /\ raised' = exception
  /\ warned' = <<>>
  /\ steady' = still(steady)
  /\ raced
  /\ UNCHANGED <<hook, apc, dropped, other, seen>>

\* the relay moves on: the outcome of the latest call is not kept
no_call ==
  /\ call' = NoCall
  /\ raised' = "none"
  /\ warned' = <<>>
  /\ UNCHANGED <<apc, dropped, races, delay_calls>>

\* ------------------------------------------------- administration calls
\* the add that leaves a url the block list holds already out
add_to_blocklist_once(url) ==
  /\ Room(block_list)
  /\ block_list' = IF IndexOf(block_list, url) = 0
                   THEN Append(block_list, url)
                   ELSE block_list
  /\ UNCHANGED <<custom_response_list, custom_response_status,
                 response_delays_list, urls>>
  /\ returns("add_to_blocklist", <<url>>, <<>>)

\* the add that puts the url at the head of the block list
add_to_blocklist_first(url) ==
  /\ Room(block_list)
  /\ block_list' = <<url>> \o block_list
  /\ UNCHANGED <<custom_response_list, custom_response_status,
                 response_delays_list, urls>>
  /\ returns("add_to_blocklist", <<url>>, <<>>)

\* lines 121-128: self.block_list.append(url)
add_to_blocklist(url) ==
  /\ Room(block_list)
  /\ block_list' = Append(block_list, url)
  /\ UNCHANGED <<custom_response_list, custom_response_status,
                 response_delays_list, urls>>
  /\ returns("add_to_blocklist", <<url>>, <<>>)

\* the add that replaces the delay entry that has the alias already
add_response_delay_item_unique(alias, url, delay) ==
  LET i == alias_index(response_delays_list, alias) IN
  /\ Room(response_delays_list)
  /\ response_delays_list' =
       Append(IF i = 0 THEN response_delays_list
              ELSE RemoveAt(response_delays_list, i),
              [alias |-> alias, url |-> url, delay |-> delay])
  /\ UNCHANGED <<block_list, custom_response_list, custom_response_status,
                 urls>>
  /\ returns("add_response_delay_item", <<alias, url, delay>>, <<>>)

\* lines 130-141: self.response_delays_list.append(DotDict({...}))
add_response_delay_item(alias, url, delay) ==
  /\ Room(response_delays_list)
  /\ response_delays_list' =
       Append(response_delays_list,
              [alias |-> alias, url |-> url, delay |-> delay])
  /\ UNCHANGED <<block_list, custom_response_list, custom_response_status,
                 urls>>
  /\ returns("add_response_delay_item", <<alias, url, delay>>, <<>>)

\* the clear that leaves the response delays in place
clear_all_proxy_items_keeps_delays ==
  /\ block_list' = <<>>
  /\ custom_response_list' = <<>>
  /\ custom_response_status' = <<>>
  /\ UNCHANGED response_delays_list
  /\ UNCHANGED urls
  /\ returns("clear_all_proxy_items", <<>>, <<>>)

\* the clear that leaves the status entries in place
clear_all_proxy_items_keeps_status ==
  /\ block_list' = <<>>
  /\ custom_response_list' = <<>>
  /\ response_delays_list' = <<>>
  /\ UNCHANGED custom_response_status
  /\ UNCHANGED urls
  /\ returns("clear_all_proxy_items", <<>>, <<>>)

clear_all_proxy_items ==
  /\ block_list' = <<>>
  /\ custom_response_list' = <<>>
  /\ custom_response_status' = <<>>
  /\ response_delays_list' = <<>>
  /\ UNCHANGED urls
  /\ returns("clear_all_proxy_items", <<>>, <<>>)

\* the removal with the ValueError of list.remove left uncaught
remove_from_blocklist_uncaught(url) ==
  LET i == IndexOf(block_list, url) IN
  /\ block_list' = IF i = 0 THEN block_list ELSE RemoveAt(block_list, i)
  /\ UNCHANGED <<custom_response_list, custom_response_status,
                 response_delays_list, urls>>
  /\ IF i = 0
     THEN raises("remove_from_blocklist", <<url>>, "ValueError")
     ELSE returns("remove_from_blocklist", <<url>>, <<>>)

\* the removal that takes every element equal to url out of the list
remove_from_blocklist_every(url) ==
  LET i == IndexOf(block_list, url) IN
  /\ block_list' = SelectSeq(block_list, LAMBDA u : u # url)
  /\ UNCHANGED <<custom_response_list, custom_response_status,
                 response_delays_list, urls>>
  /\ returns("remove_from_blocklist", <<url>>,
             IF i = 0
             THEN <<<<"warn", url \o " was not found in blocklist">>>>
             ELSE <<>>)

\* list.remove(url): the first element equal to url goes; ValueError is
\* caught and logged as a warning
remove_from_blocklist(url) ==
  LET i == IndexOf(block_list, url) IN
  /\ block_list' = IF i = 0 THEN block_list ELSE RemoveAt(block_list, i)
  /\ UNCHANGED <<custom_response_list, custom_response_status,
                 response_delays_list, urls>>
  /\ returns("remove_from_blocklist", <<url>>,
             IF i = 0
             THEN <<<<"warn", url \o " was not found in blocklist">>>>
             ELSE <<>>)

\* the add that replaces the entry that has the alias already
add_custom_response_item_unique(alias, url, overwrite_headers, overwrite_body, status_code) ==
  LET i == alias_index(custom_response_list, alias)
      entry == [alias |-> alias, url |-> url, headers |-> overwrite_headers,
                body |-> overwrite_body, status_code |-> status_code]
  IN
  /\ Room(custom_response_list)
  /\ custom_response_list' =
       IF i = 0 THEN Append(custom_response_list, entry)
       ELSE Append(RemoveAt(custom_response_list, i), entry)
  /\ UNCHANGED <<block_list, custom_response_status, response_delays_list,
                 urls>>
  /\ returns("add_custom_response_item",
             <<alias, url, overwrite_headers, overwrite_body, status_code>>,
             <<>>)

add_custom_response_item(alias, url, overwrite_headers, overwrite_body, status_code) ==
  /\ Room(custom_response_list)
  /\ custom_response_list' =
       Append(custom_response_list,
              [alias |-> alias, url |-> url, headers |-> overwrite_headers,
               body |-> overwrite_body, status_code |-> status_code])
  /\ UNCHANGED <<block_list, custom_response_status, response_delays_list,
                 urls>>
  /\ returns("add_custom_response_item",
             <<alias, url, overwrite_headers, overwrite_body, status_code>>,
             <<>>)

\* lines 168-170: the call that leaves overwrite_headers, overwrite_body and
\* status_code out, so that they take their defaults None, None and 200
add_custom_response_item_defaults(alias, url) ==
  /\ Room(custom_response_list)
  /\ custom_response_list' =
       Append(custom_response_list,
              [alias |-> alias, url |-> url, headers |-> NoHeaders,
               body |-> None, status_code |-> 200])
  /\ UNCHANGED <<block_list, custom_response_status, response_delays_list,
                 urls>>
  /\ returns("add_custom_response_item", <<alias, url>>, <<>>)

\* the removal that takes the url out of custom_response_urls and leaves the
\* entry in the list
remove_custom_response_item_keeps_entry(alias) ==
  LET i == alias_index(custom_response_list, alias)
      url_to_remove == custom_response_list[i].url
      j == IndexOf(custom_response_urls, url_to_remove)
  IN
  /\ custom_response_urls' =
       IF i = 0 \/ j = 0 THEN custom_response_urls
       ELSE RemoveAt(custom_response_urls, j)
  /\ UNCHANGED <<store, custom_status_urls, delay_response_urls>>
  /\ IF i = 0
     THEN raises("remove_custom_response_item", <<alias>>,
                 ListIndexTypeError)
     ELSE returns("remove_custom_response_item", <<alias>>, <<>>)

\* the removal that takes every entry with the alias out of the list
remove_custom_response_item_every(alias) ==
  LET i == alias_index(custom_response_list, alias)
      url_to_remove == custom_response_list[i].url
      j == IndexOf(custom_response_urls, url_to_remove)
  IN
  /\ custom_response_list' =
       SelectSeq(custom_response_list, LAMBDA e : e.alias # alias)
  /\ custom_response_urls' =
       IF i = 0 \/ j = 0 THEN custom_response_urls
       ELSE RemoveAt(custom_response_urls, j)
  /\ UNCHANGED <<block_list, custom_response_status, response_delays_list,
                 custom_status_urls, delay_response_urls>>
  /\ IF i = 0
     THEN raises("remove_custom_response_item", <<alias>>,
                 ListIndexTypeError)
     ELSE returns("remove_custom_response_item", <<alias>>,
                  IF j = 0
                  THEN <<<<"warn", "Custom response with alias '" \o alias
                                     \o "' not found.">>>>
                  ELSE <<>>)

\* the removal that takes the status entries with the alias out as well
remove_custom_response_item_and_status(alias) ==
  LET i == alias_index(custom_response_list, alias)
      url_to_remove == custom_response_list[i].url
      j == IndexOf(custom_response_urls, url_to_remove)
  IN
  /\ custom_response_list' =
       IF i = 0 THEN custom_response_list
       ELSE RemoveAt(custom_response_list, i)
  /\ custom_response_status' =
       IF i = 0 THEN custom_response_status
       ELSE SelectSeq(custom_response_status, LAMBDA e : e.alias # alias)
  /\ custom_response_urls' =
       IF i = 0 \/ j = 0 THEN custom_response_urls
       ELSE RemoveAt(custom_response_urls, j)
  /\ UNCHANGED <<block_list, response_delays_list, custom_status_urls,
                 delay_response_urls>>
  /\ IF i = 0
     THEN raises("remove_custom_response_item", <<alias>>,
                 ListIndexTypeError)
     ELSE returns("remove_custom_response_item", <<alias>>,
                  IF j = 0
                  THEN <<<<"warn", "Custom response with alias '" \o alias
                                     \o "' not found.">>>>
                  ELSE <<>>)

\* next(..., None) gives None when no entry has the alias, and list[None]
\* raises TypeError, which the except clause does not name.  With the entry
\* found it is popped, and custom_response_urls.remove(url) then raises the
\* ValueError that is logged as "not found" when the url is not in that list
remove_custom_response_item(alias) ==
  LET i == alias_index(custom_response_list, alias)
      url_to_remove == custom_response_list[i].url
      j == IndexOf(custom_response_urls, url_to_remove)
  IN
  /\ custom_response_list' =
       IF i = 0 THEN custom_response_list
       ELSE RemoveAt(custom_response_list, i)
  /\ custom_response_urls' =
       IF i = 0 \/ j = 0 THEN custom_response_urls
       ELSE RemoveAt(custom_response_urls, j)
  /\ UNCHANGED <<block_list, custom_response_status, response_delays_list,
                 custom_status_urls, delay_response_urls>>
  /\ IF i = 0
     THEN raises("remove_custom_response_item", <<alias>>,
                 ListIndexTypeError)
     ELSE returns("remove_custom_response_item", <<alias>>,
                  IF j = 0
                  THEN <<<<"warn", "Custom response with alias '" \o alias
                                     \o "' not found.">>>>
                  ELSE <<>>)

add_custom_response_status(alias, url, status_code) ==
  /\ Room(custom_response_status)
  /\ custom_response_status' =
       Append(custom_response_status,
              [alias |-> alias, url |-> url, status_code |-> status_code])
  /\ UNCHANGED <<block_list, custom_response_list, response_delays_list,
                 urls>>
  /\ returns("add_custom_response_status", <<alias, url, status_code>>,
             <<>>)

\* list.pop(None) raises TypeError when no entry has the alias
remove_custom_status(alias) ==
  LET i == alias_index(custom_response_status, alias) IN
  /\ custom_response_status' =
       IF i = 0 THEN custom_response_status
       ELSE RemoveAt(custom_response_status, i)
  /\ UNCHANGED <<block_list, custom_response_list, response_delays_list,
                 urls>>
  /\ IF i = 0
     THEN raises("remove_custom_status", <<alias>>, PopTypeError)
     ELSE returns("remove_custom_status", <<alias>>, <<>>)

\* the start that hands the proxy the RequestLogger it had before
start_mitm_proxy_keeps_logger ==
  /\ UNCHANGED <<store, urls>>
  /\ returns("start_mitm_proxy", <<>>, <<>>)

\* MitmLibrary.start_mitm_proxy: self.request_logger becomes a new
\* RequestLogger, the addon of the new proxy; its seven lists are empty
start_mitm_proxy ==
  /\ block_list' = <<>>
  /\ custom_response_list' = <<>>
  /\ custom_response_status' = <<>>
  /\ response_delays_list' = <<>>
  /\ custom_status_urls' = <<>>
  /\ custom_response_urls' = <<>>
  /\ delay_response_urls' = <<>>
  /\ returns("start_mitm_proxy", <<>>, <<>>)

\* ------------------------------------------------------------ the relay
\* a new exchange arrives once the previous one is blocked or delivered
arrive(f) ==
  /\ pc = "idle"
  /\ phase \in {"NONE", "BLOCKED", "DELIVERED"}
  /\ exchanges < MaxExchanges
  /\ exchanges' = exchanges + 1
  /\ phase' = "ARRIVED"
  /\ flow' = f
  /\ no_call
  /\ UNCHANGED <<other, visits>>
  /\ UNCHANGED <<store, urls, response, kills, pc, idx, timer, slept,
                 sleeps, log>>

\* the upstream round trip of an exchange that passed the request hook
upstream ==
  /\ pc = "idle"
  /\ phase = "PASSED_REQUEST"
  /\ phase' = "RESPONSE_RECEIVED"
  /\ response' = Upstream
  /\ no_call
  /\ UNCHANGED <<other, visits>>
  /\ UNCHANGED <<store, urls, flow, kills, pc, idx, timer, slept,
                 sleeps, log, exchanges>>

\* ---------------------------------------------------- RequestLogger.request
\* the host test as an equality instead of a substring test
block_host_match_exact(url) == pretty_host(flow) = url

\* the host test left out: every entry kills once the any(...) test passed
block_host_match_always(url) == TRUE

\* the host test made on the full url instead of the host
block_host_match_in_url(url) == Contains(pretty_url(flow), url)

\* line 69: if url in flow.request.pretty_host
block_host_match(url) == Contains(pretty_host(flow), url)

\* line 67: if any(url in flow.request.pretty_url for url in self.block_list)
request_any ==
  /\ pc = "idle"
  /\ phase = "ARRIVED"
  /\ IF AnyIn(block_list, pretty_url(flow))
     THEN pc' = "request_for" /\ idx' = 1
     ELSE pc' = "request_return" /\ idx' = 0
  /\ no_call
  /\ UNCHANGED <<other, visits>>
  /\ UNCHANGED <<store, urls, phase, flow, response, kills, timer,
                 slept, sleeps, log, exchanges>>

\* lines 68-74: one iteration of  for url in self.block_list.
\* flow.kill() on a flow that is killed already depends on the flow object:
\* it returns (the Mock flow of the repository's test, mitmproxy before 7) or
\* it raises ControlException (mitmproxy 7 and later), which ends the hook
\* before the record is written
request_for ==
  /\ pc = "request_for"
  /\ IF idx > Len(block_list)
     THEN /\ pc' = "request_return"
          /\ idx' = 0
          /\ UNCHANGED <<kills, log>>
     ELSE IF block_host_match(block_list[idx])
     THEN \/ /\ pc' = pc
             /\ idx' = idx + 1
             /\ kills' = kills + 1
             /\ log' = Append(log, <<"info", "Blocked request for "
                                        \o pretty_url(flow)>>)
          \/ /\ kills > 0
             /\ pc' = "request_return"
             /\ idx' = 0
             /\ kills' = kills + 1
             /\ UNCHANGED log
     ELSE /\ pc' = pc
          /\ idx' = idx + 1
          /\ UNCHANGED <<kills, log>>
  /\ UNCHANGED <<admin, other, visits, store, urls, phase, flow, response, timer, slept,
                 sleeps, exchanges>>

\* the hook returns; the relay drops a killed flow and forwards any other
request_return ==
  /\ pc = "request_return"
  /\ pc' = "idle"
  /\ phase' = IF kills > 0 THEN "BLOCKED" ELSE "PASSED_REQUEST"
  /\ flow' = IF kills > 0 THEN NoFlow ELSE flow
  /\ kills' = 0
  /\ log' = <<>>
  /\ UNCHANGED <<admin, other, visits, store, urls, response, idx, timer, slept, sleeps,
                 exchanges>>

\* --------------------------------------------------- RequestLogger.response
\* mitmproxy's http.Response.make(status_code, content, headers): a response
\* with this status code, this text as its body and these headers (the
\* content-length header that make derives from the body is not kept here)
make(status_code, content, headers) ==
  [status_code |-> status_code, body |-> content, headers |-> headers]

\* lines 240-243: Response.make raises for this status_code
make_raises(status_code) == status_code = BadCode

\* lines 230-239: the headers handed to make.  A dict that is not empty gives
\* its items; otherwise hasattr(flow, "headers") is false of an HTTPFlow and
\* the headers are the empty http.Headers()
custom_headers(custom_response) ==
  IF custom_response.headers.present /\ custom_response.headers.items # <<>>
  THEN custom_response.headers.items
  ELSE <<>>

\* line 234: bytes(value, "utf-8") raises TypeError for a value that is no
\* text; the position of the first such item, 0 when every value is text
bad_item(custom_response) ==
  IF custom_response.headers.present
  THEN First({i \in 1..Len(custom_response.headers.items) :
                ~is_text(custom_response.headers.items[i][2])})
  ELSE 0

\* lines 226-234: the logger records written up to that TypeError
custom_response_raise_log(custom_response) ==
  <<<<"info", "Trying to update response for " \o custom_response.url>>>>
  \o [i \in 1..bad_item(custom_response) |->
        <<"info", custom_response.headers.items[i][1]>>]

\* the response built with the status code the flow's response already has
custom_flow_response_keeps_status(custom_response) ==
  make(response.status_code, safe_str(custom_response.body),
       custom_headers(custom_response))

\* the response built with the body and the headers the flow's response
\* already has where the entry gives none
custom_flow_response_keeps_rest(custom_response) ==
  make(custom_response.status_code,
       IF custom_response.body = None THEN response.body
       ELSE safe_str(custom_response.body),
       IF custom_response.headers.present
       THEN custom_headers(custom_response)
       ELSE response.headers)

\* lines 240-243: the response that replaces flow.response
custom_flow_response(custom_response) ==
  make(custom_response.status_code, safe_str(custom_response.body),
       custom_headers(custom_response))

\* the logger records of update_request_with_custom_response
custom_response_log(custom_response) ==
  <<<<"info", "Trying to update response for " \o custom_response.url>>>>
  \o (IF custom_response.headers.present
      THEN [i \in 1..Len(custom_response.headers.items) |->
              <<"info", custom_response.headers.items[i][1]>>]
      ELSE <<>>)
  \o <<<<"info", "Succesfully updated response for "
                   \o custom_response.url>>>>

\* lines 226-252: the logger records of update_request_with_custom_response
\* when Response.make raises: those up to the call and the error record of
\* the except branch
custom_response_error_log(custom_response) ==
  <<<<"info", "Trying to update response for " \o custom_response.url>>>>
  \o (IF custom_response.headers.present
      THEN [i \in 1..Len(custom_response.headers.items) |->
              <<"info", custom_response.headers.items[i][1]>>]
      ELSE <<>>)
  \o <<<<"error", "Updating response for " \o custom_response.url
                    \o " failed: " \o MakeTypeError>>>>

\* the response of the flow with the body of the entry written before the
\* failure
failed_response_partly(resp, custom_response) ==
  [resp EXCEPT !.body = safe_str(custom_response.body)]

\* lines 241-243: Response.make raises before the assignment to
\* flow.response takes place: the flow's response is what it was
failed_response(resp, custom_response) == resp

\* lines 99, 108, 113: if <entry>.url in flow.request.pretty_url
url_match(entry) == Contains(pretty_url(flow), entry.url)

\* the status code written only onto a response no override has replaced
with_status_code_unless_overridden(resp, status_code) ==
  IF resp = Upstream THEN [resp EXCEPT !.status_code = status_code] ELSE resp

\* the status code written as a new response without body and headers
with_status_code_alone(resp, status_code) == make(status_code, "", <<>>)

\* line 109: flow.response.status_code = custom_status.status_code
with_status_code(resp, status_code) ==
  [resp EXCEPT !.status_code = status_code]

\* the response hook that begins without the three extend calls
response_extend_nothing ==
  /\ pc = "idle"
  /\ phase = "RESPONSE_RECEIVED"
  /\ pc' = "override_any"
  /\ no_call
  /\ steady' = {custom_response_list[i] : i \in 1..Len(custom_response_list)}
  /\ UNCHANGED <<other, seen>>
  /\ UNCHANGED <<store, urls, phase, flow, response, kills, idx, timer,
                 slept, sleeps, log, exchanges>>

\* lines 87-95: the three url lists are extended by the urls of the entries
response_extend ==
  /\ pc = "idle"
  /\ phase = "RESPONSE_RECEIVED"
  /\ custom_status_urls' = custom_status_urls \o Urls(custom_response_status)
  /\ custom_response_urls' = custom_response_urls \o Urls(custom_response_list)
  /\ delay_response_urls' = delay_response_urls \o Urls(response_delays_list)
  /\ pc' = "override_any"
  /\ no_call
  /\ steady' = {custom_response_list[i] : i \in 1..Len(custom_response_list)}
  /\ UNCHANGED <<other, seen>>
  /\ UNCHANGED <<store, phase, flow, response, kills, idx, timer,
                 slept, sleeps, log, exchanges>>

\* line 97: if any(url in pretty_url for url in self.custom_response_urls)
override_any ==
  /\ pc = "override_any"
  /\ IF AnyIn(custom_response_urls, pretty_url(flow))
     THEN pc' = "override_for" /\ idx' = 1
     ELSE pc' = "status_any" /\ idx' = 0
  /\ UNCHANGED <<admin, other, visits, store, urls, phase, flow, response, kills, timer,
                 slept, sleeps, log, exchanges>>

\* the loop that takes each entry it applies out of the list
override_for_consuming ==
  /\ pc = "override_for"
  /\ IF idx > Len(custom_response_list)
     THEN /\ pc' = "status_any"
          /\ idx' = 0
          /\ UNCHANGED <<response, log, seen, custom_response_list>>
     ELSE /\ pc' = pc
          /\ idx' = IF url_match(custom_response_list[idx])
                    THEN idx ELSE idx + 1
          /\ custom_response_list' =
               IF url_match(custom_response_list[idx])
               THEN RemoveAt(custom_response_list, idx)
               ELSE custom_response_list
          /\ seen' = seen \cup {custom_response_list[idx]}
          /\ IF url_match(custom_response_list[idx])
             THEN /\ response' =
                       custom_flow_response(custom_response_list[idx])
                  /\ log' = log \o
                       custom_response_log(custom_response_list[idx])
             ELSE UNCHANGED <<response, log>>
  /\ UNCHANGED <<admin, other, steady, block_list, custom_response_status,
                 response_delays_list, urls, phase, flow, kills, timer, slept,
                 sleeps, exchanges>>

\* lines 98-100: one iteration of  for custom_response in custom_response_list.
\* The TypeError of line 234 is raised outside the try block of line 240: it
\* leaves update_request_with_custom_response and response.  An exception of
\* Response.make is raised inside it: the except branch of lines 248-252
\* writes an error record and the loop goes on
override_for ==
  /\ pc = "override_for"
  /\ IF idx > Len(custom_response_list)
     THEN /\ pc' = "status_any"
          /\ idx' = 0
          /\ UNCHANGED <<response, log, seen>>
     ELSE IF /\ url_match(custom_response_list[idx])
             /\ bad_item(custom_response_list[idx]) # 0
     THEN /\ pc' = "response_raise"
          /\ idx' = 0
          /\ seen' = seen \cup {custom_response_list[idx]}
          /\ log' = log \o
               custom_response_raise_log(custom_response_list[idx])
          /\ UNCHANGED response
     ELSE IF /\ url_match(custom_response_list[idx])
             /\ make_raises(custom_response_list[idx].status_code)
     THEN /\ pc' = pc
          /\ idx' = idx + 1
          /\ seen' = seen \cup {custom_response_list[idx]}
          /\ response' = failed_response(response, custom_response_list[idx])
          /\ log' = log \o
               custom_response_error_log(custom_response_list[idx])
     ELSE /\ pc' = pc
          /\ idx' = idx + 1
          /\ seen' = seen \cup {custom_response_list[idx]}
          /\ IF url_match(custom_response_list[idx])
             THEN /\ response' =
                       custom_flow_response(custom_response_list[idx])
                  /\ log' = log \o
                       custom_response_log(custom_response_list[idx])
             ELSE UNCHANGED <<response, log>>
  /\ UNCHANGED <<admin, other, steady, store, urls, phase, flow, kills, timer, slept,
                 sleeps, exchanges>>

\* line 102: if any(url in pretty_url for url in self.custom_status_urls)
status_any ==
  /\ pc = "status_any"
  /\ IF AnyIn(custom_status_urls, pretty_url(flow))
     THEN pc' = "status_for" /\ idx' = 1
     ELSE pc' = "delay_any" /\ idx' = 0
  /\ UNCHANGED <<admin, other, visits, store, urls, phase, flow, response, kills, timer,
                 slept, sleeps, log, exchanges>>

\* lines 103-109: one iteration of  for custom_status in custom_response_status
status_for ==
  /\ pc = "status_for"
  /\ IF idx > Len(custom_response_status)
     THEN /\ pc' = "delay_any"
          /\ idx' = 0
          /\ UNCHANGED <<response, log>>
     ELSE /\ pc' = pc
          /\ idx' = idx + 1
          /\ log' = Append(log,
                 <<"info", "Updating status code for "
                     \o custom_response_status[idx].url \o " to "
                     \o ToString(custom_response_status[idx].status_code)>>)
          /\ IF url_match(custom_response_status[idx])
             THEN response' =
                    with_status_code(response,
                                     custom_response_status[idx].status_code)
             ELSE UNCHANGED response
  /\ UNCHANGED <<admin, other, visits, store, urls, phase, flow, kills, timer, slept,
                 sleeps, exchanges>>

\* line 111: if any(url in pretty_url for url in self.delay_response_urls)
delay_any ==
  /\ pc = "delay_any"
  /\ IF AnyIn(delay_response_urls, pretty_url(flow))
     THEN pc' = "delay_for" /\ idx' = 1
     ELSE pc' = "response_return" /\ idx' = 0
  /\ UNCHANGED <<admin, other, visits, store, urls, phase, flow, response, kills, timer,
                 slept, sleeps, log, exchanges>>

\* lines 112-119: one iteration of  for response_delay in response_delays_list
\* up to the call of time_sleep
delay_for ==
  /\ pc = "delay_for"
  /\ IF idx > Len(response_delays_list)
     THEN /\ pc' = "response_return"
          /\ idx' = 0
          /\ UNCHANGED <<timer, log>>
     ELSE IF url_match(response_delays_list[idx])
     THEN /\ pc' = "time_sleep"
          /\ idx' = idx
          /\ timer' = timestr_to_secs(response_delays_list[idx].delay)
          /\ log' = Append(log,
                 <<"info", "Delaying response for "
                     \o response_delays_list[idx].url \o " for "
                     \o response_delays_list[idx].delay \o " seconds">>)
     ELSE /\ pc' = pc
          /\ idx' = idx + 1
          /\ UNCHANGED <<timer, log>>
  /\ UNCHANGED <<admin, other, visits, store, urls, phase, flow, response, kills, slept,
                 sleeps, exchanges>>

\* the sleep returning at once, no time having passed
time_sleep_returns_at_once ==
  /\ pc = "time_sleep"
  /\ pc' = "delay_for"
  /\ idx' = idx + 1
  /\ sleeps' = sleeps + 1
  /\ timer' = 0
  /\ UNCHANGED <<admin, other, visits, store, urls, phase, flow, response, kills, log, exchanges,
                 slept>>

\* the sleep after which the hook goes on to the status check
time_sleep_then_status ==
  /\ pc = "time_sleep"
  /\ pc' = "status_any"
  /\ idx' = 0
  /\ slept' = slept + timer
  /\ sleeps' = sleeps + 1
  /\ timer' = 0
  /\ UNCHANGED <<admin, other, visits, store, urls, phase, flow, response, kills, log,
                 exchanges>>

\* line 119: time_sleep returns after the seconds asked for
time_sleep ==
  /\ pc = "time_sleep"
  /\ pc' = "delay_for"
  /\ idx' = idx + 1
  /\ slept' = slept + timer
  /\ sleeps' = sleeps + 1
  /\ timer' = 0
  /\ UNCHANGED <<admin, other, visits, store, urls, phase, flow, response, kills, log,
                 exchanges>>

\* the hook returns and the relay delivers flow.response to the client
response_return ==
  /\ pc = "response_return"
  /\ pc' = "idle"
  /\ phase' = "DELIVERED"
  /\ flow' = NoFlow
  /\ response' = NoResponse
  /\ log' = <<>>
  /\ slept' = 0
  /\ sleeps' = 0
  /\ steady' = {}
  /\ seen' = {}
  /\ UNCHANGED <<admin, other, store, urls, kills, idx, timer, exchanges>>

\* the hook ended in an exception: the proxy's addon manager catches it,
\* writes it to the proxy's own log, and the relay delivers flow.response as
\* the hook left it
response_raise ==
  /\ pc = "response_raise"
  /\ pc' = "idle"
  /\ phase' = "DELIVERED"
  /\ flow' = NoFlow
  /\ response' = NoResponse
  /\ log' = <<>>
  /\ slept' = 0
  /\ sleeps' = 0
  /\ steady' = {}
  /\ seen' = {}
  /\ UNCHANGED <<admin, other, store, urls, kills, idx, timer, exchanges>>

\* --------------------------------- clear_all_proxy_items, statement by statement
\* lines 147-150 as the other thread can see them: the four list.clear()
\* calls one at a time, with no lock held across them
clear_block_list ==
  /\ apc = "idle"
  /\ block_list' = <<>>
  /\ apc' = "custom_response_list.clear"
  /\ dropped' = Len(block_list)
  /\ raced
  /\ UNCHANGED <<custom_response_list, custom_response_status,
                 response_delays_list, urls, hook, call, raised, warned,
                 delay_calls, other, visits>>

clear_custom_response_list ==
  /\ apc = "custom_response_list.clear"
  /\ custom_response_list' = <<>>
  /\ apc' = "custom_response_status.clear"
  /\ dropped' = dropped + Len(custom_response_list)
  /\ steady' = still(steady)
  /\ raced
  /\ UNCHANGED <<block_list, custom_response_status, response_delays_list,
                 urls, hook, call, raised, warned, delay_calls, other,
                 seen>>

clear_custom_response_status ==
  /\ apc = "custom_response_status.clear"
  /\ custom_response_status' = <<>>
  /\ apc' = "response_delays_list.clear"
  /\ dropped' = dropped + Len(custom_response_status)
  /\ raced
  /\ UNCHANGED <<block_list, custom_response_list, response_delays_list,
                 urls, hook, call, raised, warned, delay_calls, other,
                 visits>>

clear_response_delays_list ==
  /\ apc = "response_delays_list.clear"
  /\ response_delays_list' = <<>>
  /\ apc' = "idle"
  /\ dropped' = 0
  /\ raced
  /\ call' = [name |-> "clear_all_proxy_items", args |-> <<>>,
               entries |-> Entries + dropped]
  /\ raised' = "none"
  /\ warned' = <<>>
  /\ delay_calls' = <<>>
  /\ UNCHANGED <<block_list, custom_response_list, custom_response_status,
                 urls, hook, other, visits>>

\* ------------------------------------------------------ a second exchange
\* the request of a second exchange, sent by its client while the first
\* exchange is under way
OtherFlow == [host |-> "blocked.example", path |-> "/x"]

\* the event loop has no hook running: the proxy runs in one event loop, in
\* one thread, and the hooks are plain functions called from it
loop_free == pc = "idle"

other_arrive ==
  /\ ~between
  /\ other = "NONE"
  /\ other' = "ARRIVED"
  /\ UNCHANGED <<store, urls, hook, admin, visits>>

\* RequestLogger.request on the second exchange, run by the event loop
other_request ==
  /\ loop_free
  /\ other = "ARRIVED"
  /\ other' =
       IF /\ AnyIn(block_list, pretty_url(OtherFlow))
          /\ \E i \in 1..Len(block_list) :
               Contains(pretty_host(OtherFlow), block_list[i])
       THEN "BLOCKED"
       ELSE "PASSED_REQUEST"
  /\ UNCHANGED <<store, urls, hook, admin, visits>>

\* ------------------------------------------------------- the specification
\* the test script may set rules up: no exchange is under way and one is
\* still to come
setup == between /\ exchanges < MaxExchanges

\* the administration calls, made between the exchanges
Administration ==
  \/ \E url \in BlockFragments : setup /\ add_to_blocklist(url)
  \/ \E url \in BlockFragments : setup /\ remove_from_blocklist(url)
  \/ \E alias \in Aliases, url \in ResponseFragments, h \in HeaderArgs,
        body \in Bodies, code \in ResponseCodes :
        setup /\ add_custom_response_item(alias, url, h, body, code)
  \/ \E alias \in Aliases : setup /\ remove_custom_response_item(alias)
  \/ \E alias \in StatusAliases, url \in StatusFragments,
        code \in StatusCodes :
        setup /\ add_custom_response_status(alias, url, code)
  \/ \E alias \in StatusAliases : setup /\ remove_custom_status(alias)
  \/ \E alias \in DelayAliases, url \in DelayFragments, delay \in Delays :
        setup /\ add_response_delay_item(alias, url, delay)
  \/ setup /\ clear_all_proxy_items
  \/ setup /\ start_mitm_proxy

Relay ==
  \/ \E f \in Flows : arrive(f)
  \/ upstream

Hooks ==
  \/ request_any
  \/ request_for
  \/ request_return
  \/ response_extend
  \/ override_any
  \/ override_for
  \/ status_any
  \/ status_for
  \/ delay_any
  \/ delay_for
  \/ time_sleep
  \/ response_return
  \/ response_raise

Next == Administration \/ Relay \/ Hooks

Spec == Init /\ [][Next]_vars

\* the calls that leave optional arguments out
Defaults ==
  \E alias \in Aliases, url \in ResponseFragments :
    setup /\ add_custom_response_item_defaults(alias, url)

StoreNext == Administration \/ Defaults

\* the administration calls alone, on a RequestLogger that relays nothing
StoreSpec == Init /\ [][StoreNext]_vars

\* The administration calls as the Robot Framework thread makes them while
\* the event-loop thread runs the hooks: one call at a time, its statements
\* between any two statements of a hook.
\* The Robot Framework thread may run a statement now: no exchange is under
\* way and one is still to come, or an exchange is under way and one more
\* statement may fall inside it
in_time ==
  \/ between /\ exchanges < MaxThreadsExchanges
  \/ ~between /\ races < MaxRaces

\* it may start a call now: it has no call in progress
free == apc = "idle" /\ in_time

Calls ==
  \/ \E url \in BlockFragments : free /\ add_to_blocklist(url)
  \/ \E url \in BlockFragments : free /\ remove_from_blocklist(url)
  \/ \E alias \in Aliases, url \in ResponseFragments, h \in HeaderArgs,
        body \in Bodies, code \in ResponseCodes :
        free /\ add_custom_response_item(alias, url, h, body, code)
  \/ \E alias \in Aliases : free /\ remove_custom_response_item(alias)
  \/ \E alias \in StatusAliases, url \in StatusFragments,
        code \in StatusCodes :
        free /\ add_custom_response_status(alias, url, code)
  \/ \E alias \in StatusAliases : free /\ remove_custom_status(alias)
  \/ \E alias \in DelayAliases, url \in DelayFragments, delay \in Delays :
        free /\ add_response_delay_item(alias, url, delay)
  \/ in_time /\ clear_block_list
  \/ in_time /\ clear_custom_response_list
  \/ in_time /\ clear_custom_response_status
  \/ in_time /\ clear_response_delays_list

Others ==
  \/ other_arrive
  \/ other_request

ThreadsRelay ==
  \/ \E f \in Flows : exchanges < MaxThreadsExchanges /\ arrive(f)
  \/ upstream

ThreadsNext == Calls \/ ThreadsRelay \/ Others \/ Hooks

ThreadsSpec == Init /\ [][ThreadsNext]_vars

\* The exchanges alone, on a store that the test script filled before the
\* first of them: every collection holds what a number of add calls, made on
\* the new RequestLogger, have appended to it.
Lists(S, n) == UNION {[1..k -> S] : k \in 0..n}

\* the entries that the add calls build from their arguments
\* the status_code arguments of the override entries of a store filled
\* beforehand
PassCodes == ResponseCodes \cup {BadCode}

OverrideEntries ==
  [alias : Aliases, url : ResponseFragments, headers : HeaderArgs,
   body : Bodies, status_code : PassCodes]

StatusEntries ==
  [alias : StatusAliases, url : StatusFragments, status_code : StatusCodes]

DelayEntries == [alias : DelayAliases, url : DelayFragments, delay : Delays]

PassInit ==
  /\ block_list \in Lists(BlockFragments, MaxPassLen)
  /\ custom_response_list \in Lists(OverrideEntries, MaxPassLen)
  /\ custom_response_status \in Lists(StatusEntries, MaxPassLen)
  /\ response_delays_list \in Lists(DelayEntries, MaxPassLen)
  /\ custom_status_urls = <<>>
  /\ custom_response_urls = <<>>
  /\ delay_response_urls = <<>>
  /\ phase = "NONE"
  /\ flow = NoFlow
  /\ response = NoResponse
  /\ kills = 0
  /\ pc = "idle"
  /\ idx = 0
  /\ timer = 0
  /\ slept = 0
  /\ sleeps = 0
  /\ log = <<>>
  /\ exchanges = 0
  /\ call = NoCall
  /\ raised = "none"
  /\ warned = <<>>
  /\ apc = "idle"
  /\ dropped = 0
  /\ races = 0
  /\ delay_calls = response_delays_list
  /\ other = "NONE"
  /\ steady = {}
  /\ seen = {}

PassNext == Relay \/ Hooks

PassSpec == PassInit /\ [][PassNext]_vars

\* ------------------------------------------------- the request hook's claims
\* the block entries that are a substring of the flow's host and of its url
BlockMatches ==
  {i \in 1..Len(block_list) :
     /\ Contains(pretty_host(flow), block_list[i])
     /\ Contains(pretty_url(flow), block_list[i])}

\* the "Blocked request for <url>" records among the hook's records
BlockedRecords ==
  {i \in 1..Len(log) :
     log[i] = <<"info", "Blocked request for " \o pretty_url(flow)>>}

InRequestHook == pc \in {"request_for", "request_return"}

C2_OneKillOneRecord ==
  pc = "request_return" =>
    /\ kills <= 1
    /\ kills = 1 => Cardinality(BlockedRecords) = 1

OverrideMatches ==
  {i \in 1..Len(custom_response_list) :
     Contains(pretty_url(flow), custom_response_list[i].url)}

StatusMatches ==
  {i \in 1..Len(custom_response_status) :
     Contains(pretty_url(flow), custom_response_status[i].url)}

DelayMatches ==
  {i \in 1..Len(response_delays_list) :
     Contains(pretty_url(flow), response_delays_list[i].url)}

\* the response hook has run all its statements and is about to return
Returning == pc = "response_return"

\* C5: when override entries match the flow's url, the response the hook
\* returns has the body, headers and status code of the matching entry that
\* was inserted first (the status code unless a status entry matches too).
C5_FirstOverrideWins ==
  (Returning /\ OverrideMatches # {}) =>
    LET e == custom_response_list[First(OverrideMatches)] IN
    /\ response.body = safe_str(e.body)
    /\ response.headers = custom_headers(e)
    /\ StatusMatches = {} => response.status_code = e.status_code

\* C6: with exactly one matching override entry and no matching status entry
\* the response the hook returns has the entry's body (as text) and the
\* entry's status code; with no matching override entry the override step
\* leaves body, headers and status code as the upstream server sent them.
C6_SingleOverrideApplied ==
  /\ (Returning /\ Cardinality(OverrideMatches) = 1 /\ StatusMatches = {}) =>
       LET e == custom_response_list[First(OverrideMatches)] IN
       /\ response.body = safe_str(e.body)
       /\ response.status_code = e.status_code
  /\ (pc \in {"override_for", "status_any"} /\ OverrideMatches = {}) =>
       response = Upstream
  /\ (Returning /\ OverrideMatches = {}) =>
       /\ response.body = Upstream.body
       /\ response.headers = Upstream.headers
       /\ StatusMatches = {} => response.status_code = Upstream.status_code

\* override "api.example/v1", body "OK", status 201, alone, on
\* http://api.example/v1/users: the response is "OK" with 201
C6_Witness ==
  /\ Returning
  /\ pretty_url(flow) = "http://api.example/v1/users"
  /\ Cardinality(OverrideMatches) = 1
  /\ StatusMatches = {}
  /\ custom_response_list[First(OverrideMatches)].url = "api.example/v1"
  /\ response.body = "OK"
  /\ response.status_code = 201

\* C7: when status entries match the flow's url, the status code of the
\* response the hook returns is that of the matching status entry that was
\* inserted first.
C7_FirstStatusWins ==
  (Returning /\ StatusMatches # {}) =>
    response.status_code =
      custom_response_status[First(StatusMatches)].status_code

\* C8: when an override entry and a status entry both match, the response
\* the hook returns has body and headers of a matching override entry and
\* the status code of a matching status entry, not the override entry's.
C8_OverrideAndStatusCompose ==
  (Returning /\ OverrideMatches # {} /\ StatusMatches # {}) =>
    /\ \E o \in OverrideMatches :
         /\ response.body = safe_str(custom_response_list[o].body)
         /\ response.headers = custom_headers(custom_response_list[o])
    /\ \E s \in StatusMatches :
         response.status_code = custom_response_status[s].status_code

\* override body "OK" with status 201 and status entry 503: "OK" with 503
C8_Witness ==
  /\ Returning
  /\ Cardinality(OverrideMatches) = 1
  /\ Cardinality(StatusMatches) = 1
  /\ custom_response_list[First(OverrideMatches)].status_code = 201
  /\ custom_response_status[First(StatusMatches)].status_code = 503
  /\ response.body = "OK"
  /\ response.status_code = 503

\* C9: when delay entries match the flow's url, the response hook sleeps
\* once, for the duration of the matching entry that was inserted first.
C9_FirstDelayOnly ==
  (Returning /\ DelayMatches # {}) =>
    /\ sleeps = 1
    /\ slept =
         timestr_to_secs(response_delays_list[First(DelayMatches)].delay)

Count(list, x) == Cardinality({i \in 1..Len(list) : list[i] = x})

\* the override step of the running response hook is over
PastOverride ==
  pc \in {"status_any", "status_for", "delay_any", "delay_for", "time_sleep",
          "response_return"}

\* C11: remove_custom_response_item with the alias of an override entry takes
\* that entry (the first with the alias) out of the override list without an
\* error, whether or not response hooks ran since it was added; and body,
\* headers and status code of the response of a later response hook come
\* from the upstream response or from entries that are in the lists then,
\* never from a removed one.
C11_RemovedOverrideHasNoEffect ==
  /\ [][\A alias \in Aliases :
          LET i == alias_index(custom_response_list, alias) IN
          (remove_custom_response_item(alias) /\ i # 0) =>
            /\ custom_response_list' = RemoveAt(custom_response_list, i)
            /\ raised' = "none"]_vars
  /\ [](PastOverride =>
          /\ \/ /\ response.body = Upstream.body
                /\ response.headers = Upstream.headers
             \/ \E o \in OverrideMatches :
                  /\ response.body = safe_str(custom_response_list[o].body)
                  /\ response.headers =
                       custom_headers(custom_response_list[o])
          /\ response.status_code \in
               {Upstream.status_code}
                 \cup {custom_response_list[o].status_code :
                         o \in OverrideMatches}
                 \cup {custom_response_status[t].status_code :
                         t \in StatusMatches})

\* an entry has been removed after a response hook had run with it in the
\* list (its url was found in custom_response_urls, so no warning)
C11_Witness ==
  /\ call.name = "remove_custom_response_item"
  /\ raised = "none"
  /\ warned = <<>>
  /\ exchanges >= 1

\* C12: remove_custom_response_item with an alias that no override entry has
\* raises no error, writes a not-found warning and leaves the four
\* collections and the url lists as they were.
C12_MissingOverrideAliasIsNotFatal ==
  [][\A alias \in Aliases :
       (/\ remove_custom_response_item(alias)
        /\ alias_index(custom_response_list, alias) = 0) =>
         /\ raised' = "none"
         /\ warned' # <<>>
         /\ store' = store
         /\ urls' = urls]_vars

\* C13: remove_custom_status with the alias of a status entry takes out the
\* first status entry with that alias and nothing else; with an alias that
\* no status entry has it raises no error, reports not-found and leaves the
\* status list as it was.
C13_StatusRemovalMirrorsOverrideRemoval ==
  [][\A alias \in StatusAliases :
       LET i == alias_index(custom_response_status, alias) IN
       remove_custom_status(alias) =>
         /\ raised' = "none"
         /\ i # 0 =>
              custom_response_status' = RemoveAt(custom_response_status, i)
         /\ i = 0 =>
              /\ custom_response_status' = custom_response_status
              /\ warned' # <<>>
         /\ UNCHANGED <<block_list, custom_response_list,
                        response_delays_list>>]_vars

\* C14: remove_from_blocklist(u) with u not an element of the block list
\* raises no error, writes the warning "<u> was not found in blocklist" and
\* leaves the block list and the three other collections as they were.
C14_MissingBlockEntryIsNoOp ==
  [][\A u \in BlockFragments :
       (remove_from_blocklist(u) /\ Count(block_list, u) = 0) =>
         /\ raised' = "none"
         /\ warned' = <<<<"warn", u \o " was not found in blocklist">>>>
         /\ store' = store]_vars

\* "example" is not an element of the list that holds "blocked.example"
C14_Witness ==
  /\ call.name = "remove_from_blocklist"
  /\ call.args = <<"example">>
  /\ warned # <<>>
  /\ block_list = <<"blocked.example">>

\* C15: remove_from_blocklist(u) with u an element of the block list takes
\* out the first element equal to u (the whole string, not a substring) and
\* keeps every other element in its order: one occurrence of u fewer, so u
\* added once is gone and u added n times is left n-1 times.
C15_RemovesFirstExactMatch ==
  [][\A u \in BlockFragments :
       (remove_from_blocklist(u) /\ Count(block_list, u) > 0) =>
         /\ \E i \in 1..Len(block_list) :
              /\ block_list[i] = u
              /\ \A j \in 1..(i - 1) : block_list[j] # u
              /\ block_list' = RemoveAt(block_list, i)
         /\ Count(block_list', u) = Count(block_list, u) - 1
         /\ raised' = "none"
         /\ warned' = <<>>
         /\ UNCHANGED <<custom_response_list, custom_response_status,
                        response_delays_list>>]_vars

\* "example" added twice and removed once: it is in the list once
C15_Witness ==
  /\ call.name = "remove_from_blocklist"
  /\ call.args = <<"example">>
  /\ warned = <<>>
  /\ block_list = <<"example">>

\* C16: when clear_all_proxy_items has returned, whatever the state it was
\* called in (an empty store included), the block list, the override list,
\* the status list and the delay list are empty, and no error was raised.
C16_ClearEmptiesTheFourLists ==
  call.name = "clear_all_proxy_items" =>
    /\ raised = "none"
    /\ block_list = <<>>
    /\ custom_response_list = <<>>
    /\ custom_response_status = <<>>
    /\ response_delays_list = <<>>

\* a clear after response hooks had run with override and delay entries
C16_Witness ==
  /\ call.name = "clear_all_proxy_items"
  /\ custom_response_urls # <<>>
  /\ delay_response_urls # <<>>

\* ---------------------------------------------------- the two threads' claims
\* C17: a hook never runs while clear_all_proxy_items has emptied some of the
\* four lists and not yet the others: no hook statement is executed with
\* entries emptied by a clear in progress and entries left in a list.
C17_ClearIsAtomicForAHook ==
  (pc # "idle" /\ dropped > 0) => Entries = 0

\* C18: when the override loop of a response hook has ended, every override
\* entry that was in the list ever since the hook began has been visited by
\* the loop, whatever calls the administration thread made meanwhile.
C18_NoEntrySkipped ==
  PastOverride => \A e \in steady : e \in seen \/ ~url_match(e)

\* C19: while a response hook sleeps in time_sleep, the administration thread
\* can make a call and the request hook of a second exchange that has
\* arrived can run.
C19_DelayBlocksNoOne ==
  pc = "time_sleep" =>
    /\ races < MaxRaces => ENABLED Calls
    /\ other = "ARRIVED" => ENABLED other_request

\* C20: no step of RequestLogger.request or RequestLogger.response changes
\* the block list, the override list, the status list or the delay list.
C20_HooksLeaveTheStoreAlone ==
  [][Hooks => store' = store]_vars

\* a response hook that applied an override and slept returns
C20_Witness ==
  /\ Returning
  /\ OverrideMatches # {}
  /\ DelayMatches # {}
  /\ sleeps > 0
  /\ response.body = "OK"

\* --------------------------------------------- the override entry's claims
\* the response hook is over: it returns or it has raised
HookOver == pc \in {"response_return", "response_raise"}

\* the matching override entries with a header value that is no text
MalformedMatches ==
  {o \in OverrideMatches : bad_item(custom_response_list[o]) # 0}

\* C21: an override entry whose body is no text or whose header value is no
\* text makes only its own mutation fail: the response hook raises no error,
\* the failure is in the hook's records as an error, and the status check
\* and the delay check of the same hook are still made (a matching status
\* entry's code is written, a matching delay entry is slept).
C21_MalformedOverrideFailsAlone ==
  /\ pc # "response_raise"
  /\ (HookOver /\ MalformedMatches # {}) =>
       /\ \E i \in 1..Len(log) : log[i][1] = "error"
       /\ StatusMatches # {} =>
            \E t \in StatusMatches :
              response.status_code = custom_response_status[t].status_code
       /\ DelayMatches # {} => sleeps > 0

\* C22: when one override entry matches and is applied, the headers of the
\* response the hook returns are exactly the entry's pairs if the entry has
\* a header mapping, and the headers the response had (the upstream
\* server's) if it has none.
C22_HeadersReplacedOrRetained ==
  (Returning /\ Cardinality(OverrideMatches) = 1) =>
    LET e == custom_response_list[First(OverrideMatches)] IN
    response.headers =
      IF e.headers.present THEN e.headers.items ELSE Upstream.headers

\* C23: the aliases of override entries and of status entries are apart:
\* add_custom_response_item and remove_custom_response_item leave the status
\* list as it was, add_custom_response_status and remove_custom_status leave
\* the override list as it was, also when both lists hold the same alias.
C23_AliasNamespacesAreIndependent ==
  [][/\ (\E alias \in Aliases, url \in ResponseFragments, h \in HeaderArgs,
            body \in Bodies, code \in ResponseCodes :
            add_custom_response_item(alias, url, h, body, code)) =>
          custom_response_status' = custom_response_status
     /\ (\E alias \in Aliases : remove_custom_response_item(alias)) =>
          custom_response_status' = custom_response_status
     /\ (\E alias \in StatusAliases, url \in StatusFragments,
            code \in StatusCodes :
            add_custom_response_status(alias, url, code)) =>
          custom_response_list' = custom_response_list
     /\ (\E alias \in StatusAliases : remove_custom_status(alias)) =>
          custom_response_list' = custom_response_list]_vars

\* the override entry "A1" has been removed and the status entry "A1" is
\* still in its list
C23_Witness ==
  /\ call.name = "remove_custom_response_item"
  /\ call.args = <<"A1">>
  /\ raised = "none"
  /\ \E t \in 1..Len(custom_response_status) :
       custom_response_status[t].alias = "A1"

\* C24: add_custom_response_item(alias, url, headers, body, status_code)
\* appends one entry with exactly that alias, url, headers, body and
\* status_code at the end of the override list and raises nothing, also
\* when an entry with the alias is in the list already (both are kept);
\* called with alias and url alone, the entry has no headers, no body and
\* status_code 200.
C24_AddAppendsTheEntryAsGiven ==
  /\ [][\A alias \in Aliases, url \in ResponseFragments, h \in HeaderArgs,
           body \in Bodies, code \in ResponseCodes :
           add_custom_response_item(alias, url, h, body, code) =>
             /\ custom_response_list' =
                  Append(custom_response_list,
                         [alias |-> alias, url |-> url, headers |-> h,
                          body |-> body, status_code |-> code])
             /\ raised' = "none"]_vars
  /\ [][\A alias \in Aliases, url \in ResponseFragments :
           add_custom_response_item_defaults(alias, url) =>
             /\ Len(custom_response_list') = Len(custom_response_list) + 1
             /\ SubSeq(custom_response_list', 1, Len(custom_response_list))
                  = custom_response_list
             /\ LET e == custom_response_list'[Len(custom_response_list')]
                IN /\ e.alias = alias
                   /\ e.url = url
                   /\ e.headers = NoHeaders
                   /\ e.body = None
                   /\ e.status_code = 200
             /\ raised' = "none"]_vars

\* an entry has been added under the alias of the entry before it
C24_Witness ==
  /\ call.name = "add_custom_response_item"
  /\ Len(custom_response_list) = 2
  /\ custom_response_list[1].alias = custom_response_list[2].alias
  /\ custom_response_list[1] # custom_response_list[2]

\* the positions of the entries of the list that have the alias
WithAlias(list, alias) == {i \in 1..Len(list) : list[i].alias = alias}

\* C25: when several override entries (or several status entries) have one
\* alias, a removal by that alias takes out the first of them in insertion
\* order and leaves the later ones in the list, where they are applied to
\* matching flows: the response a hook returns has body and headers of a
\* matching override entry of the list and the status code of a matching
\* status entry of the list.
C25_RemovalTakesTheFirstOfAnAlias ==
  /\ [][\A alias \in Aliases :
          (/\ remove_custom_response_item(alias)
           /\ Cardinality(WithAlias(custom_response_list, alias)) >= 2) =>
            /\ custom_response_list' =
                 RemoveAt(custom_response_list,
                          First(WithAlias(custom_response_list, alias)))
            /\ Cardinality(WithAlias(custom_response_list', alias)) =
                 Cardinality(WithAlias(custom_response_list, alias)) - 1]_vars
  /\ [][\A alias \in StatusAliases :
          (/\ remove_custom_status(alias)
           /\ Cardinality(WithAlias(custom_response_status, alias)) >= 2) =>
            /\ custom_response_status' =
                 RemoveAt(custom_response_status,
                          First(WithAlias(custom_response_status, alias)))
            /\ Cardinality(WithAlias(custom_response_status', alias)) =
                 Cardinality(WithAlias(custom_response_status, alias)) - 1]_vars
  /\ []((Returning /\ OverrideMatches # {}) =>
          \E o \in OverrideMatches :
            /\ response.body = safe_str(custom_response_list[o].body)
            /\ response.headers = custom_headers(custom_response_list[o]))
  /\ []((Returning /\ StatusMatches # {}) =>
          \E t \in StatusMatches :
            response.status_code = custom_response_status[t].status_code)

\* of two override entries "A1" the second is left after one removal, an
\* exchange having been relayed before
C25_Witness ==
  /\ call.name = "remove_custom_response_item"
  /\ call.args = <<"A1">>
  /\ raised = "none"
  /\ exchanges >= 1
  /\ Len(custom_response_list) = 1
  /\ custom_response_list[1].alias = "A1"

\* ------------------------------------------------- the response pass's claims
\* the statements of the three checks of RequestLogger.response
OverridePhase == {"override_any", "override_for"}
StatusPhase == {"status_any", "status_for"}
DelayPhase == {"delay_any", "delay_for", "time_sleep", "response_return"}

\* C26: the response hook makes its three checks in the order override,
\* status, delay and never goes back: body and headers are written by the
\* override check only, the status code by the override check and, after it,
\* by the status check; the hook sleeps in the delay check only, and from
\* the start of the delay check until the hook returns the response is not
\* written any more.
C26_OverrideThenStatusThenDelay ==
  /\ [][/\ pc \in OverridePhase =>
             pc' \in OverridePhase \cup {"status_any", "response_raise"}
        /\ pc \in StatusPhase => pc' \in StatusPhase \cup {"delay_any"}
        /\ pc \in DelayPhase => pc' \in DelayPhase \cup {"idle"}
        /\ (pc \in OverridePhase \cup StatusPhase \cup DelayPhase
              /\ pc' # "idle") =>
             /\ (response'.body # response.body
                   \/ response'.headers # response.headers) =>
                  pc = "override_for"
             /\ response'.status_code # response.status_code =>
                  pc \in {"override_for", "status_for"}
        /\ (pc \in DelayPhase /\ pc' # "idle") => response' = response
        /\ (slept' # slept /\ pc' # "idle") => pc = "time_sleep"]_vars
  /\ []((pc = "time_sleep" \/ sleeps > 0) => pc \in DelayPhase)

\* an override entry, a status entry and a delay entry match one flow: the
\* hook sleeps with the override's body and the status entry's code written
C26_Witness ==
  /\ pc = "time_sleep"
  /\ OverrideMatches # {}
  /\ StatusMatches # {}
  /\ DelayMatches # {}
  /\ response.body = "OK"
  /\ response.status_code = 503

\* C27: clear_all_proxy_items leaves an empty store, and on an empty store,
\* whatever adds, removes and response hooks went before, the hooks do what
\* they do on a new RequestLogger: the request hook kills nothing, and the
\* response hook writes no record, sleeps at no time, raises nothing and
\* leaves the response as the upstream server sent it.
C27_ClearIsARestart ==
  /\ call.name = "clear_all_proxy_items" => Entries = 0
  /\ (Entries = 0 /\ ~between) =>
       /\ kills = 0
       /\ log = <<>>
       /\ slept = 0
       /\ sleeps = 0
       /\ pc \notin {"time_sleep", "response_raise"}
       /\ response =
            IF phase = "RESPONSE_RECEIVED" THEN Upstream ELSE NoResponse

\* a response hook returns on the empty store after an earlier hook had run
\* with an override entry and a delay entry in it; only a clear takes a
\* delay entry out of its list and leaves its url behind
C27_Witness ==
  /\ Returning
  /\ Entries = 0
  /\ custom_response_urls # <<>>
  /\ delay_response_urls # <<>>

\* C28: a new RequestLogger has its four collections empty, and every
\* start_mitm_proxy makes a new one, so that no rule added before it is in
\* the store after it; a collection that holds entries becomes empty by
\* start_mitm_proxy, by clear_all_proxy_items or by the removal of its last
\* entry, and by no other step.
C28_EmptyByConstructionClearOrLastRemoval ==
  /\ []((call = NoCall /\ exchanges = 0) => Entries = 0)
  /\ [](call.name = "start_mitm_proxy" =>
          /\ Entries = 0
          /\ urls = <<<<>>, <<>>, <<>>>>)
  /\ [][/\ (block_list # <<>> /\ block_list' = <<>>) =>
             \/ start_mitm_proxy
             \/ clear_all_proxy_items
             \/ /\ Len(block_list) = 1
                /\ \E url \in BlockFragments : remove_from_blocklist(url)
        /\ (custom_response_list # <<>> /\ custom_response_list' = <<>>) =>
             \/ start_mitm_proxy
             \/ clear_all_proxy_items
             \/ /\ Len(custom_response_list) = 1
                /\ \E alias \in Aliases : remove_custom_response_item(alias)
        /\ (custom_response_status # <<>>
              /\ custom_response_status' = <<>>) =>
             \/ start_mitm_proxy
             \/ clear_all_proxy_items
             \/ /\ Len(custom_response_status) = 1
                /\ \E alias \in StatusAliases : remove_custom_status(alias)
        /\ (response_delays_list # <<>> /\ response_delays_list' = <<>>) =>
             \/ start_mitm_proxy
             \/ clear_all_proxy_items]_vars

\* the proxy has been started again with rules in the store and url lists
\* that earlier response hooks had filled
C28_Witness ==
  /\ call.name = "start_mitm_proxy"
  /\ call.entries > 0
  /\ exchanges >= 1

\* C29: remove_custom_response_item(alias) writes the not-found warning when
\* no override entry has the alias and only then: with an entry of that
\* alias in the list, also one added with no response hook run since, it
\* takes the entry out and writes no warning.
C29_NotFoundOnlyWhenAbsent ==
  [][\A alias \in Aliases :
       LET i == alias_index(custom_response_list, alias) IN
       remove_custom_response_item(alias) =>
         /\ i = 0 =>
              warned' = <<<<"warn", "Custom response with alias '" \o alias
                                     \o "' not found.">>>>
         /\ i # 0 =>
              /\ custom_response_list' = RemoveAt(custom_response_list, i)
              /\ warned' = <<>>]_vars

\* C30: the status check writes the status code only: every step of the
\* status check leaves body and headers of the response as they were, be
\* they the upstream server's or an override entry's.
C30_StatusWritesTheCodeOnly ==
  [][(status_any \/ status_for) =>
       /\ response'.body = response.body
       /\ response'.headers = response.headers]_vars

\* the status entry's 503 has been written onto the response an override
\* entry had built
C30_Witness ==
  /\ pc = "status_for"
  /\ idx = 2
  /\ StatusMatches = {1}
  /\ response.status_code = 503
  /\ response.body = "OK"
  /\ response.headers = <<<<"X-Rule", "1">>>>

\* C31: every add call (add_to_blocklist, add_custom_response_item,
\* add_custom_response_status, add_response_delay_item) appends exactly one
\* entry at the end of its own collection, raises nothing, also when the
\* collection holds an equal entry already, and leaves the entries that
\* collection had and the three other collections as they were.
C31_AddAppendsOneAndLeavesTheRest ==
  /\ [][\A url \in BlockFragments :
           add_to_blocklist(url) =>
             /\ block_list' = Append(block_list, url)
             /\ raised' = "none"
             /\ UNCHANGED <<custom_response_list, custom_response_status,
                            response_delays_list>>]_vars
  /\ [][\A alias \in Aliases, url \in ResponseFragments, h \in HeaderArgs,
           body \in Bodies, code \in ResponseCodes :
           add_custom_response_item(alias, url, h, body, code) =>
             /\ Len(custom_response_list') = Len(custom_response_list) + 1
             /\ SubSeq(custom_response_list', 1, Len(custom_response_list))
                  = custom_response_list
             /\ raised' = "none"
             /\ UNCHANGED <<block_list, custom_response_status,
                            response_delays_list>>]_vars
  /\ [][\A alias \in StatusAliases, url \in StatusFragments,
           code \in StatusCodes :
           add_custom_response_status(alias, url, code) =>
             /\ custom_response_status' =
                  Append(custom_response_status,
                         [alias |-> alias, url |-> url, status_code |-> code])
             /\ raised' = "none"
             /\ UNCHANGED <<block_list, custom_response_list,
                            response_delays_list>>]_vars
  /\ [][\A alias \in DelayAliases, url \in DelayFragments, delay \in Delays :
           add_response_delay_item(alias, url, delay) =>
             /\ response_delays_list' =
                  Append(response_delays_list,
                         [alias |-> alias, url |-> url, delay |-> delay])
             /\ raised' = "none"
             /\ UNCHANGED <<block_list, custom_response_list,
                            custom_response_status>>]_vars

\* a url has been added to the block list that held that url already
C31_Witness ==
  /\ call.name = "add_to_blocklist"
  /\ raised = "none"
  /\ Len(block_list) = 2
  /\ block_list[1] = block_list[2]
  /\ call.args = <<block_list[2]>>

\* C32: delay entries are list-only: no call but clear_all_proxy_items (and
\* the construction of a new RequestLogger) takes a delay entry out of the
\* list or changes one, and neither hook does; in every reachable state the
\* delay list is the sequence of the add_response_delay_item calls made
\* since the list was last cleared or built, in the order of the calls.
C32_DelayListIsTheAddsSinceClear ==
  response_delays_list = delay_calls

\* a delay entry has been added to a store that a clear had emptied, after
\* a response pass had read an earlier delay entry
C32_Witness ==
  /\ call.name = "add_response_delay_item"
  /\ call.entries = 0
  /\ Len(response_delays_list) = 1
  /\ delay_response_urls # <<>>

\* the list after a step holds what it held before in the same order: it
\* is as it was, or has one entry more at its end, or has lost one entry,
\* or is empty
KeepsOrder(before, after) ==
  \/ after = before
  \/ after = <<>>
  \/ /\ Len(after) = Len(before) + 1
     /\ SubSeq(after, 1, Len(before)) = before
  \/ \E i \in 1..Len(before) : after = RemoveAt(before, i)

\* C33: insertion order is preserved in every collection: whatever add,
\* remove, clear, request or response step is taken, the entries that stay
\* in a collection keep their order and a new entry comes after them, so
\* that the entries of a collection are always in the order in which they
\* were added.
C33_InsertionOrderIsKept ==
  [][/\ KeepsOrder(block_list, block_list')
     /\ KeepsOrder(custom_response_list, custom_response_list')
     /\ KeepsOrder(custom_response_status, custom_response_status')
     /\ KeepsOrder(response_delays_list, response_delays_list')]_vars

\* after a response pass the first of two override entries has been
\* removed and the second is what the list holds
C33_Witness ==
  /\ call.name = "remove_custom_response_item"
  /\ call.args = <<"A1">>
  /\ call.entries = 2
  /\ raised = "none"
  /\ Len(custom_response_list) = 1
  /\ custom_response_list[1].alias = "A2"
  /\ custom_response_urls # <<>>

\* C34: when Response.make raises for a matching override entry, the
\* flow's response is left exactly as it was before that entry was tried
\* (status, headers and body), the failure is written as an error record
\* of the logger, and the override loop goes on.
C34_FailedOverrideLeavesTheResponse ==
  [][(/\ override_for
      /\ idx <= Len(custom_response_list)
      /\ url_match(custom_response_list[idx])
      /\ bad_item(custom_response_list[idx]) = 0
      /\ make_raises(custom_response_list[idx].status_code)) =>
       /\ response' = response
       /\ Len(log') > Len(log)
       /\ log'[Len(log')] =
            <<"error", "Updating response for "
                        \o custom_response_list[idx].url
                        \o " failed: " \o MakeTypeError>>
       /\ \A i \in 1..(Len(log') - 1) : log'[i][1] # "error"
       /\ pc' = "override_for"]_vars

\* the override loop is over with the upstream response in place and the
\* error record of a matching entry in the log
C34_Witness ==
  /\ pc = "status_any"
  /\ OverrideMatches # {}
  /\ response = Upstream
  /\ \E i \in 1..Len(log) : log[i][1] = "error"

\* the last of these positions, 0 if there is none
Last(indices) ==
  IF indices = {} THEN 0
  ELSE CHOOSE i \in indices : \A j \in indices : j <= i

\* the matching override entries that replace the response of the flow:
\* those before the first one that has a header value that is no text, but
\* for those Response.make fails on
Applied ==
  LET b == First(MalformedMatches) IN
  {o \in OverrideMatches :
     /\ ~make_raises(custom_response_list[o].status_code)
     /\ b = 0 \/ o < b}

\* what the override entries of the store make of the flow's response
Overridden ==
  IF Applied = {} THEN Upstream
  ELSE LET e == custom_response_list[Last(Applied)] IN
       [status_code |-> e.status_code, body |-> safe_str(e.body),
        headers |-> custom_headers(e)]

\* what the override and the status entries of the store make of it
Statused ==
  IF StatusMatches = {} THEN Overridden
  ELSE [Overridden EXCEPT !.status_code =
          custom_response_status[Last(StatusMatches)].status_code]

\* the seconds of the delay entries of the store that match the flow
Delayed ==
  LET sum[k \in 0..Len(response_delays_list)] ==
        IF k = 0 THEN 0
        ELSE sum[k - 1]
             + (IF k \in DelayMatches
                THEN timestr_to_secs(response_delays_list[k].delay)
                ELSE 0)
  IN sum[Len(response_delays_list)]

\* C35: the outcome of a response pass is a function of the four
\* collections and the flow only: status, headers, body and delay at the
\* end of the pass are what the entries now in the store give for this
\* flow, whatever adds, removes, clears and response passes came before and
\* whatever urls they left in the three auxiliary url lists.
C35_OutcomeIsAFunctionOfStoreAndFlow ==
  /\ Returning =>
       /\ MalformedMatches = {}
       /\ response = Statused
       /\ slept = Delayed
  /\ pc = "response_raise" =>
       /\ MalformedMatches # {}
       /\ response = Overridden
       /\ slept = 0

\* a pass is over for which urls of entries that are gone have opened the
\* override loop and the status loop, while one entry now in the store
\* matches the flow and has been applied
C35_Witness ==
  /\ Returning
  /\ AnyIn(custom_response_urls, pretty_url(flow))
  /\ OverrideMatches = {}
  /\ AnyIn(custom_status_urls, pretty_url(flow))
  /\ StatusMatches = {}
  /\ DelayMatches # {}
  /\ response = Upstream
  /\ slept > 0

\* C36: applying an override entry replaces the whole response: status
\* code, headers and body of the new response all come from the entry.  An
\* entry added without a body gives the body "None", the text of the
\* missing value, not the upstream body, and no header and no body of the
\* upstream response is in the response once the entry has been applied.
C36_OverrideReplacesTheWholeResponse ==
  (/\ pc = "override_for"
   /\ idx > 1
   /\ idx - 1 \in OverrideMatches
   /\ ~make_raises(custom_response_list[idx - 1].status_code)) =>
    LET e == custom_response_list[idx - 1] IN
    /\ response.status_code = e.status_code
    /\ response.body = IF e.body = None THEN "None" ELSE e.body
    /\ response.headers =
         (IF e.headers.present THEN e.headers.items ELSE <<>>)
    /\ response.body # Upstream.body
    /\ \A i \in 1..Len(response.headers), j \in 1..Len(Upstream.headers) :
         response.headers[i] # Upstream.headers[j]

\* an entry with no body and no headers has been applied to the upstream
\* response "UP" with its header Server: up
C36_Witness ==
  /\ pc = "override_for"
  /\ idx = 2
  /\ 1 \in OverrideMatches
  /\ custom_response_list[1].body = None
  /\ custom_response_list[1].headers = NoHeaders
  /\ response.body = "None"
  /\ response.headers = <<>>

\* every url of the url list is the url of an entry of the collection
OnlyUrlsOf(url_list, list) ==
  \A i \in 1..Len(url_list) : \E j \in 1..Len(list) : url_list[i] = list[j].url

\* C37: the auxiliary url lists stay consistent with the rule store: in
\* every reachable state custom_response_urls, custom_status_urls and
\* delay_response_urls hold only urls of entries that are in the override,
\* the status and the delay collection at that time (so that they do not
\* grow with the number of response passes).
C37_UrlListsFollowTheStore ==
  /\ OnlyUrlsOf(custom_response_urls, custom_response_list)
  /\ OnlyUrlsOf(custom_status_urls, custom_response_status)
  /\ OnlyUrlsOf(delay_response_urls, response_delays_list)
====
